---- MODULE Spec2Model ----
(***************************************************************************)
(* The connection actor of the EPP client (src/src/connection.rs): one     *)
(* task owns the transport stream, takes work items from an unbounded      *)
(* inbox, performs one wire exchange at a time and answers each work item  *)
(* on its private result channel.  The actor is modelled at the            *)
(* granularity of its suspension points (waiting for a work item, the      *)
(* write of a frame, the read of a frame, the transport shutdown); client  *)
(* handles, the owner of the connection and the server are the             *)
(* environment.                                                            *)
(***************************************************************************)
EXTENDS Integers, Sequences, FiniteSets, TLC

\* ------------------------------------------------------------- bounds
\* Work items enqueued in one behaviour without an idle timeout.
MaxItems == 2
\* Work items enqueued in one behaviour with an idle timeout.
MaxIdleItems == 1
\* Client handles (inbox senders) alive at once.
MaxHandles == 2
\* Keepalive round trips started in one behaviour.
MaxKeepalives == 2
\* The configured idle timeout D, in clock ticks.
IdleTicks == 2
\* Transport shutdowns after which run() is not invoked again.
MaxShutdowns == 2
\* The largest digit in a duration string, and the largest magnitude of the
\* months and seconds given to XsdDuration::new.
MaxDigit == 2

\* ------------------------------------------------------------- frames
\* A frame is identified by what it carries: the request of work item i,
\* the hello of a keepalive, the response to request i, or the k-th
\* greeting sent on stream s.
NoFrame == [kind |-> "none", id |-> 0, n |-> 0]

ReqFrame(i) == [kind |-> "req", id |-> i, n |-> 0]

HelloFrame == [kind |-> "hello", id |-> 0, n |-> 0]

RespFrame(i) == [kind |-> "resp", id |-> i, n |-> 0]

GreetingFrame(s, k) == [kind |-> "greeting", id |-> s, n |-> k]

\* Result<String, Error> as sent on a result channel.
Ok(f) == [ok |-> TRUE, val |-> f, err |-> ""]

Err(e) == [ok |-> FALSE, val |-> NoFrame, err |-> e]

\* A transport stream: its identity (the number of the connect that made
\* it), the frames the server has sent and the actor has not read yet, the
\* number of hellos the server has answered on it, and whether it has ended
\* (the peer is gone: nothing more will arrive on it).
NoStream == [id |-> 0, in |-> <<>>, hellos |-> 0, eof |-> FALSE]

\* The server behind the Connector: a fresh stream starts with a greeting.
FreshStream(s) == [id |-> s, in |-> <<GreetingFrame(s, 0)>>, hellos |-> 0, eof |-> FALSE]

\* The server answers every frame it receives, in order: a request with its
\* response, a hello with a new greeting.
ServerReply(f, str) ==
    IF f.kind = "req" THEN RespFrame(f.id) ELSE GreetingFrame(str.id, str.hellos + 1)

ServerReceive(f, str) ==
    IF str.eof THEN str
    ELSE [str EXCEPT !.in = Append(@, ServerReply(f, str)),
                     !.hellos = IF f.kind = "hello" THEN @ + 1 ELSE @]

\* The stream after the peer has gone.
Ended(str) == [str EXCEPT !.in = <<>>, !.eof = TRUE]

VARIABLES
    state,          \* ConnectionState
    greeting,       \* the cached greeting
    stream,         \* the transport stream the actor owns
    idle_timeout,   \* 0 (None) or the idle timeout in ticks
    receiver,       \* the inbox: ids of the work items queued, oldest first
    receiverAlive,  \* the inbox receiver (the EppConnection) has not been dropped
    senders,        \* client handles (inbox senders) alive
    items,          \* every work item enqueued so far, by id
    pc,             \* where the actor is
    cur,            \* the work item being processed, 0 when none
    run,            \* how run() ended
    timer,          \* ticks since the current wait for a work item began
    wire,           \* every frame written to a transport, in order
    shutdowns,      \* calls of the transport's shutdown primitive
    inFlight,       \* frames written whose read has neither completed nor failed
    idleT,          \* ticks spent in the current (or last) wait for a work item
    kaSince,        \* keepalive round trips in the current (or last) wait
    nKa,            \* keepalive round trips started
    timedOut,       \* a read has timed out: its frame may still arrive
    reconnFailed,   \* a Reconnect work item has failed
    fatal,          \* a write, a read or a connect failed and ended the loop
    lastDropOpen,   \* the last client handle was dropped while the state was Open
    queuedAtDrop,   \* work items in the inbox when the last client handle was dropped
    sinceWrite      \* with an idle timeout set: ticks since the last frame was written

\* One framed exchange looked at byte by byte: write_epp_request encodes a
\* content and writes it, read_epp_response reads a frame from the bytes the
\* transport holds.
VARIABLES
    content,        \* the request content given to write_epp_request
    wbuf,           \* the buffer write_epp_request built
    wrote,          \* the byte count stream.write returned, -1 before the write
    carried,        \* every byte the transport took towards the reader
    bytes,          \* the bytes the transport holds for the reader
    buf_size,       \* the length value of the header read
    message_size,   \* buf_size - 4 as the build computes it
    buf,            \* the payload bytes received so far
    partial,        \* a payload read returned fewer bytes than were still missing
    frame_pc,       \* where the exchange is
    frame_res       \* the Result the write or the read returned

framingVars == <<content, wbuf, wrote, carried, bytes, buf_size, message_size, buf, partial,
                 frame_pc, frame_res>>

connectionVars ==
    <<state, greeting, stream, idle_timeout, receiver, receiverAlive, senders,
      items, pc, cur, run, timer, wire, shutdowns, inFlight, idleT, kaSince,
      nKa, timedOut, reconnFailed, fatal, lastDropOpen, queuedAtDrop, sinceWrite>>

\* EppClient::transact, one call of it.
VARIABLES
    t_pc,           \* position in transact
    response_xml,   \* what the server answered, as the deserializer will see it
    rsp,            \* the deserialized Response
    t_result        \* what transact returned

transactVars == <<t_pc, response_xml, rsp, t_result>>

\* XsdDuration: one value made by new or by from_str.
VARIABLES
    d_pc,           \* "idle", then "new" or "from_str": how the value was asked for
    d_input,        \* the string given to from_str
    d_args,         \* the months and seconds given to new
    d_result        \* what new or from_str returned

durationVars == <<d_pc, d_input, d_args, d_result>>

vars == <<connectionVars, framingVars, transactVars, durationVars>>

actorVars == <<state, greeting, stream, pc, cur, run, timer, wire, shutdowns,
               inFlight, idleT, kaSince, nKa, timedOut, reconnFailed, fatal>>

ConnectionState == {"Opening", "Open", "Closing", "Closed"}

RequestMessage == {"Greeting", "Reconnect", "Request"}

\* ------------------------------------------------------------- framed I/O
\* write_epp_request: the outcomes of writing frame f to stream str in state
\* st.  "written" tells whether the frame reached the server.  A write of
\* zero bytes closes the connection; an error of the write or its timeout
\* leaves the state as it is.
write_epp_request(st, str, f) ==
    { [res |-> Ok(NoFrame), state |-> st, stream |-> ServerReceive(f, str), written |-> TRUE],
      [res |-> Err("Eof"), state |-> "Closed", stream |-> str, written |-> FALSE],
      [res |-> Err("Io"), state |-> st, stream |-> Ended(str), written |-> FALSE],
      [res |-> Err("Timeout"), state |-> st, stream |-> str, written |-> FALSE] }

\* A read whose zero-byte read inside the payload leaves the state as it is.
read_epp_response_eof_open(st, str) ==
    (IF str.in = <<>> THEN {}
     ELSE { [res |-> Ok(Head(str.in)), state |-> st, stream |-> [str EXCEPT !.in = Tail(@)]],
            [res |-> Err("Utf8"), state |-> st, stream |-> [str EXCEPT !.in = Tail(@)]] })
    \cup { [res |-> Err("Timeout"), state |-> st, stream |-> str],
           [res |-> Err("Io"), state |-> st, stream |-> Ended(str)],
           [res |-> Err("Eof"), state |-> st, stream |-> Ended(str)] }

\* A read that closes the connection on a payload that is not UTF-8.
read_epp_response_utf8_closed(st, str) ==
    (IF str.in = <<>> THEN {}
     ELSE { [res |-> Ok(Head(str.in)), state |-> st, stream |-> [str EXCEPT !.in = Tail(@)]],
            [res |-> Err("Utf8"), state |-> "Closed", stream |-> [str EXCEPT !.in = Tail(@)]] })
    \cup { [res |-> Err("Timeout"), state |-> st, stream |-> str],
           [res |-> Err("Io"), state |-> st, stream |-> Ended(str)],
           [res |-> Err("Eof"), state |-> "Closed", stream |-> Ended(str)] }

\* read_epp_response: the outcomes of reading one frame from stream str in
\* state st.  A timeout leaves the frame (it arrives late) on the stream.
\* The stream ending inside the 4-byte header is the error of read_exact and
\* leaves the state as it is; a read of zero bytes inside the payload closes
\* the connection.
read_epp_response(st, str) ==
    (IF str.in = <<>> THEN {}
     ELSE { [res |-> Ok(Head(str.in)), state |-> st, stream |-> [str EXCEPT !.in = Tail(@)]],
            [res |-> Err("Utf8"), state |-> st, stream |-> [str EXCEPT !.in = Tail(@)]] })
    \cup { [res |-> Err("Timeout"), state |-> st, stream |-> str],
           [res |-> Err("Io"), state |-> st, stream |-> Ended(str)],
           [res |-> Err("Eof"), state |-> "Closed", stream |-> Ended(str)] }

\* Connector::connect: a fresh stream, or a failure that leaves the old one.
connect(str, n) ==
    { [res |-> Ok(NoFrame), stream |-> FreshStream(n)],
      [res |-> Err("Io"), stream |-> str] }

\* No framed exchange is looked at.
FramingIdle ==
    /\ content = <<>>
    /\ wbuf = <<>>
    /\ wrote = -1
    /\ carried = <<>>
    /\ bytes = <<>>
    /\ buf_size = 0
    /\ message_size = 0
    /\ buf = <<>>
    /\ partial = FALSE
    /\ frame_pc = "idle"
    /\ frame_res = Ok(NoFrame)

\* A Response: the result code, the transaction ids and the response data.
NoResponse == [code |-> 0, tr_ids |-> 0, res_data |-> FALSE]

\* The value transact returns: the typed response, or an error with its kind
\* and, for Error::Command, the ResponseStatus it carries.
NoStatus == [result |-> 0, tr_ids |-> 0]

TransactOk(r) == [ok |-> TRUE, val |-> r, err |-> "", status |-> NoStatus]

TransactErr(e) == [ok |-> FALSE, val |-> NoResponse, err |-> e, status |-> NoStatus]

\* No call of transact is looked at.
TransactIdle ==
    /\ t_pc = "idle"
    /\ response_xml = [wellformed |-> FALSE, code |-> 0, tr_ids |-> 0, res_data |-> FALSE]
    /\ rsp = NoResponse
    /\ t_result = TransactErr("")

\* An XsdDuration, and the Result that new and from_str return.
Duration(mo, se) == [months |-> mo, seconds |-> se]

DurationOk(v) == [ok |-> TRUE, val |-> v, err |-> ""]

DurationErr(e) == [ok |-> FALSE, val |-> Duration(0, 0), err |-> e]

\* No duration is looked at.
DurationIdle ==
    /\ d_pc = "idle"
    /\ d_input = <<>>
    /\ d_args = Duration(0, 0)
    /\ d_result = DurationErr("")

Init ==
    /\ DurationIdle
    /\ TransactIdle
    /\ FramingIdle
    /\ state = "Opening"
    /\ greeting = NoFrame
    /\ stream = NoStream
    /\ idle_timeout \in {0, IdleTicks}
    /\ receiver = <<>>
    /\ receiverAlive = TRUE
    /\ senders = 1
    /\ items = <<>>
    /\ pc = "new"
    /\ cur = 0
    /\ run = [result |-> "", cause |-> ""]
    /\ timer = 0
    /\ wire = <<>>
    /\ shutdowns = 0
    /\ inFlight = 0
    /\ idleT = 0
    /\ kaSince = 0
    /\ nKa = 0
    /\ timedOut = FALSE
    /\ reconnFailed = FALSE
    /\ fatal = FALSE
    /\ lastDropOpen = FALSE
    /\ queuedAtDrop = 0
    /\ sinceWrite = 0

\* EppConnection::new, first half: the Connector is asked for a stream.
new_connect ==
    /\ pc = "new"
    /\ \E c \in connect(stream, 1) :
          /\ stream' = c.stream
          /\ pc' = IF c.res.ok THEN "new_greeting" ELSE "failed"
          /\ senders' = IF c.res.ok THEN senders ELSE 0
          /\ fatal' = (fatal \/ ~c.res.ok)
    /\ UNCHANGED <<state, greeting, idle_timeout, receiver, receiverAlive, items, cur,
                   run, timer, wire, shutdowns, inFlight, idleT, kaSince, nKa,
                   timedOut, reconnFailed, lastDropOpen, queuedAtDrop, sinceWrite>>
    /\ UNCHANGED <<framingVars, transactVars, durationVars>>

\* EppConnection::new, second half: the first frame read is the greeting.
\* The client handle is handed out only when this has succeeded.
new_read_greeting ==
    /\ pc = "new_greeting"
    /\ \E r \in read_epp_response(state, stream) :
          /\ stream' = r.stream
          /\ timedOut' = (timedOut \/ r.res.err = "Timeout")
          /\ fatal' = (fatal \/ ~r.res.ok)
          /\ IF r.res.ok
                THEN /\ greeting' = r.res.val
                     /\ state' = "Open"
                     /\ pc' = "top"
                     /\ UNCHANGED senders
                ELSE /\ state' = r.state
                     /\ pc' = "failed"
                     /\ senders' = 0
                     /\ UNCHANGED greeting
    /\ UNCHANGED <<idle_timeout, receiver, receiverAlive, items, cur, run, timer, wire,
                   shutdowns, inFlight, idleT, kaSince, nKa, reconnFailed, lastDropOpen, queuedAtDrop, sinceWrite>>
    /\ UNCHANGED <<framingVars, transactVars, durationVars>>

\* ------------------------------------------------------------- the actor
\* A receiver that hands out the newest queued work item.
RecvIndexNewest(q) == Len(q)

\* mpsc::UnboundedReceiver::recv hands out the oldest queued work item.
RecvIndex(q) == 1

\* A receive that leaves the work item it hands out in the inbox.
WithoutNone(q, k) == q

Without(q, k) == [j \in 1..(Len(q) - 1) |-> IF j < k THEN q[j] ELSE q[j + 1]]

\* A timer created once, outside the loop of request_or_keepalive.
TimerCarriedOver == timer

\* The timer of request_or_keepalive is created anew for every wait.
TimerRestart == 0

\* A run() that leaves its loop after the first message, whatever it is.
run_next_break(m) == "stopped"

\* run(): what follows message() returning m ("None", "Err" or "Ok").
run_next(m) == IF m = "Ok" THEN "top" ELSE "stopped"

\* run() returns Ok(()) however its loop ended.
run_result(m) == [result |-> "Ok", cause |-> m]

\* request.sender.send(res): buffered when the receiving half is attached,
\* lost otherwise; the Request (and with it the sender) is dropped afterwards.
Deliver(its, i, res) ==
    [its EXCEPT ![i].sent = IF its[i].rx = "waiting" THEN Append(@, res) ELSE @,
                ![i].tx = FALSE]

\* A message() that ends with an error when the send of the result fails.
SendOutcomeFatal(its, i) == IF its[i].rx = "waiting" THEN "Ok" ELSE "Err"

\* message() after request.sender.send(response): on success it loops, and
\* when the receiving half is gone it returns Some(Ok(..)), which run() logs
\* before it calls message() again.
SendOutcome(its, i) == "Ok"

\* A Request that is kept alive, with nothing sent on its result channel.
DropRequestLeaked(its, i) == its

\* The Request is dropped with nothing sent on its result channel.
DropRequest(its, i) == [its EXCEPT ![i].tx = FALSE]

\* message() returned m: run() goes on or stops.
Return(m) ==
    /\ pc' = run_next(m)
    /\ run' = IF run_next(m) = "stopped" THEN run_result(m) ELSE run

\* An actor that takes the next work item while a response is still awaited.
CanRecvPipelined ==
    /\ pc \in {"wait", "reading"}
    /\ receiver # <<>>
    /\ (idle_timeout = 0 \/ timer < idle_timeout)

\* The wait of request_or_keepalive has a work item to hand out: the timer,
\* when one is set, has not yet expired.
CanRecv ==
    /\ pc = "wait"
    /\ receiver # <<>>
    /\ (idle_timeout = 0 \/ timer < idle_timeout)

\* message(), top of the loop.
message_top ==
    /\ pc = "top"
    /\ IF state = "Closed"
          THEN /\ Return("None")
               /\ UNCHANGED <<timer, idleT, kaSince>>
          ELSE /\ pc' = "wait"
               /\ timer' = TimerRestart
               /\ idleT' = 0
               /\ kaSince' = 0
               /\ UNCHANGED run
    /\ UNCHANGED <<state, greeting, stream, idle_timeout, receiver, receiverAlive,
                   senders, items, cur, wire, shutdowns, inFlight, nKa, timedOut,
                   reconnFailed, fatal, lastDropOpen, queuedAtDrop, sinceWrite>>
    /\ UNCHANGED <<framingVars, transactVars, durationVars>>

\* A Greeting answer that does not come from the cache.
GreetingResponseEmpty == Ok(NoFrame)

\* RequestMessage::Greeting: answered from the cache.
GreetingResponse == Ok(greeting)

message_greeting ==
    /\ CanRecv
    /\ LET i == receiver[RecvIndex(receiver)] IN
          /\ items[i].kind = "Greeting"
          /\ receiver' = Without(receiver, RecvIndex(receiver))
          /\ items' = Deliver(items, i, GreetingResponse)
          /\ Return(SendOutcome(items, i))
    /\ UNCHANGED <<state, greeting, stream, idle_timeout, receiverAlive, senders, cur,
                   timer, wire, shutdowns, inFlight, idleT, kaSince, nKa, timedOut,
                   reconnFailed, fatal, lastDropOpen, queuedAtDrop, sinceWrite>>
    /\ UNCHANGED <<framingVars, transactVars, durationVars>>

\* RequestMessage::Request, the write: a failed write ends message() with
\* the error and nothing is sent to the caller.
message_request_write ==
    /\ CanRecv
    /\ LET i == receiver[RecvIndex(receiver)] IN
          /\ items[i].kind = "Request"
          /\ receiver' = Without(receiver, RecvIndex(receiver))
          /\ \E w \in write_epp_request(state, stream, ReqFrame(i)) :
                /\ state' = w.state
                /\ stream' = w.stream
                /\ wire' = IF w.written THEN Append(wire, ReqFrame(i)) ELSE wire
                /\ sinceWrite' = IF w.written THEN 0 ELSE sinceWrite
                /\ fatal' = (fatal \/ ~w.res.ok)
                /\ IF w.res.ok
                      THEN /\ pc' = "reading"
                           /\ cur' = i
                           /\ inFlight' = inFlight + 1
                           /\ UNCHANGED <<items, run>>
                      ELSE /\ items' = DropRequest(items, i)
                           /\ Return(w.res.err)
                           /\ UNCHANGED <<cur, inFlight>>
    /\ UNCHANGED <<greeting, idle_timeout, receiverAlive, senders, timer, shutdowns,
                   idleT, kaSince, nKa, timedOut, reconnFailed, lastDropOpen, queuedAtDrop>>
    /\ UNCHANGED <<framingVars, transactVars, durationVars>>

\* A message() that caches the response of a raw request as the greeting.
request_greeting_cached(cached, response) ==
    IF response.ok THEN response.val ELSE cached

\* RequestMessage::Request: the response goes to the caller and the cached
\* greeting is not assigned.
request_greeting(cached, response) == cached

\* RequestMessage::Request, the read, and the delivery of its outcome.
message_request_read ==
    /\ pc = "reading"
    /\ \E r \in read_epp_response(state, stream) :
          /\ state' = r.state
          /\ greeting' = request_greeting(greeting, r.res)
          /\ stream' = r.stream
          /\ timedOut' = (timedOut \/ r.res.err = "Timeout")
          /\ fatal' = (fatal \/ r.res.err = "Eof")
          /\ items' = Deliver(items, cur, r.res)
    /\ cur' = 0
    /\ inFlight' = inFlight - 1
    /\ Return(SendOutcome(items, cur))
    /\ UNCHANGED <<idle_timeout, receiver, receiverAlive, senders, timer,
                   wire, shutdowns, idleT, kaSince, nKa, reconnFailed, lastDropOpen, queuedAtDrop, sinceWrite>>
    /\ UNCHANGED <<framingVars, transactVars, durationVars>>

\* A failed reconnect that sends the requester both errors.
ReconnectFailedTwice(its, i) == Deliver(Deliver(its, i, Err("Reconnect")), i, Err("Io"))

\* A failed reconnect that hands the requester the underlying error.
ReconnectFailedUnderlying(its, i) == Deliver(its, i, Err("Io"))

\* A failed reconnect tells the requester Error::Reconnect and ends message()
\* with the underlying error.
ReconnectFailed(its, i) == Deliver(its, i, Err("Reconnect"))

\* A reconnect that goes on with the stream it had.
reconnect_stream_kept(old, new) == old

\* reconnect(): self.stream takes the stream the Connector returned.
reconnect_stream(old, new) == new

\* RequestMessage::Reconnect, reconnect() up to the Connector's answer.
message_reconnect_connect ==
    /\ CanRecv
    /\ LET i == receiver[RecvIndex(receiver)] IN
          /\ items[i].kind = "Reconnect"
          /\ receiver' = Without(receiver, RecvIndex(receiver))
          /\ state' = "Opening"
          /\ \E c \in connect(stream, stream.id + 1) :
                /\ stream' = IF c.res.ok THEN reconnect_stream(stream, c.stream) ELSE stream
                /\ fatal' = (fatal \/ ~c.res.ok)
                /\ IF c.res.ok
                      THEN /\ pc' = "reconnect_greeting"
                           /\ cur' = i
                           /\ UNCHANGED <<items, run, reconnFailed>>
                      ELSE /\ items' = ReconnectFailed(items, i)
                           /\ reconnFailed' = TRUE
                           /\ Return(c.res.err)
                           /\ UNCHANGED cur
    /\ UNCHANGED <<greeting, idle_timeout, receiverAlive, senders, timer, wire,
                   shutdowns, inFlight, idleT, kaSince, nKa, timedOut, lastDropOpen, queuedAtDrop, sinceWrite>>
    /\ UNCHANGED <<framingVars, transactVars, durationVars>>

\* reconnect(), the read of the new greeting, and the answer to the requester.
message_reconnect_read ==
    /\ pc = "reconnect_greeting"
    /\ \E r \in read_epp_response(state, stream) :
          /\ stream' = r.stream
          /\ timedOut' = (timedOut \/ r.res.err = "Timeout")
          /\ fatal' = (fatal \/ ~r.res.ok)
          /\ IF r.res.ok
                THEN /\ greeting' = r.res.val
                     /\ state' = "Open"
                     /\ items' = Deliver(items, cur, Ok(r.res.val))
                     /\ Return(SendOutcome(items, cur))
                     /\ UNCHANGED reconnFailed
                ELSE /\ state' = r.state
                     /\ items' = ReconnectFailed(items, cur)
                     /\ reconnFailed' = TRUE
                     /\ Return(r.res.err)
                     /\ UNCHANGED greeting
    /\ cur' = 0
    /\ UNCHANGED <<idle_timeout, receiver, receiverAlive, senders, timer, wire,
                   shutdowns, inFlight, idleT, kaSince, nKa, lastDropOpen, queuedAtDrop, sinceWrite>>
    /\ UNCHANGED <<framingVars, transactVars, durationVars>>

\* A wait that expires whether or not an idle timeout is set.
KeepaliveDueUnset == timer = idle_timeout

\* request_or_keepalive: only with an idle timeout set is the wait for a work
\* item wrapped in a timeout, and keepalive() runs when that timeout expires.
KeepaliveDue == idle_timeout > 0 /\ timer = idle_timeout

\* request_or_keepalive: the idle timeout expired before a work item came;
\* keepalive() writes a hello.
keepalive_write ==
    /\ pc = "wait"
    /\ KeepaliveDue
    /\ nKa < MaxKeepalives
    /\ nKa' = nKa + 1
    /\ \E w \in write_epp_request(state, stream, HelloFrame) :
          /\ state' = w.state
          /\ stream' = w.stream
          /\ wire' = IF w.written THEN Append(wire, HelloFrame) ELSE wire
          /\ sinceWrite' = IF w.written THEN 0 ELSE sinceWrite
          /\ fatal' = (fatal \/ ~w.res.ok)
          /\ IF w.res.ok
                THEN /\ pc' = "keepalive_reading"
                     /\ inFlight' = inFlight + 1
                     /\ UNCHANGED run
                ELSE /\ Return(w.res.err)
                     /\ UNCHANGED inFlight
    /\ UNCHANGED <<greeting, idle_timeout, receiver, receiverAlive, senders, items, cur,
                   timer, shutdowns, idleT, kaSince, timedOut, reconnFailed,
                   lastDropOpen, queuedAtDrop>>
    /\ UNCHANGED <<framingVars, transactVars, durationVars>>

\* A keepalive that leaves the cache as it was.
keepalive_greeting_kept(cached, response) == cached

\* keepalive(): self.greeting takes the response that was read.
keepalive_greeting(cached, response) == response

\* keepalive(): the response to the hello becomes the cached greeting and
\* request_or_keepalive goes back to waiting.
keepalive_read ==
    /\ pc = "keepalive_reading"
    /\ \E r \in read_epp_response(state, stream) :
          /\ state' = r.state
          /\ stream' = r.stream
          /\ timedOut' = (timedOut \/ r.res.err = "Timeout")
          /\ fatal' = (fatal \/ ~r.res.ok)
          /\ IF r.res.ok
                THEN /\ greeting' = keepalive_greeting(greeting, r.res.val)
                     /\ pc' = "wait"
                     /\ timer' = TimerRestart
                     /\ kaSince' = kaSince + 1
                     /\ UNCHANGED run
                ELSE /\ Return(r.res.err)
                     /\ UNCHANGED <<greeting, timer, kaSince>>
    /\ inFlight' = inFlight - 1
    /\ UNCHANGED <<idle_timeout, receiver, receiverAlive, senders, items, cur, wire,
                   shutdowns, idleT, nKa, reconnFailed, lastDropOpen, queuedAtDrop, sinceWrite>>
    /\ UNCHANGED <<framingVars, transactVars, durationVars>>

\* A receive that reports the channel closed as soon as the last handle is
\* gone, whatever is still queued.
RecvNoneOnDrop == senders = 0

\* mpsc::UnboundedReceiver::recv returns None once every sender is dropped
\* and the queue is empty.
RecvNone == senders = 0 /\ receiver = <<>>

\* request_or_keepalive returned None: wait_for_shutdown is called.
wait_for_shutdown_begin ==
    /\ pc = "wait"
    /\ RecvNone
    /\ (idle_timeout = 0 \/ timer < idle_timeout)
    /\ state' = "Closing"
    /\ shutdowns' = shutdowns + 1
    /\ pc' = "closing"
    /\ UNCHANGED <<greeting, stream, idle_timeout, receiver, receiverAlive, senders,
                   items, cur, run, timer, wire, inFlight, idleT, kaSince, nKa,
                   timedOut, reconnFailed, fatal, lastDropOpen, queuedAtDrop, sinceWrite>>
    /\ UNCHANGED <<framingVars, transactVars, durationVars>>

\* The shutdown returned: Closed on success, the error otherwise.
wait_for_shutdown_done ==
    /\ pc = "closing"
    /\ \E ok \in BOOLEAN :
          IF ok THEN /\ state' = "Closed"
                     /\ Return("None")
                ELSE /\ Return("Io")
                     /\ UNCHANGED state
    /\ UNCHANGED <<greeting, stream, idle_timeout, receiver, receiverAlive, senders,
                   items, cur, timer, wire, shutdowns, inFlight, idleT, kaSince, nKa,
                   timedOut, reconnFailed, fatal, lastDropOpen, queuedAtDrop, sinceWrite>>
    /\ UNCHANGED <<framingVars, transactVars, durationVars>>

\* ------------------------------------------------------------- the environment
\* The client handle exists once new() has succeeded.
Constructed == pc \notin {"new", "new_greeting", "failed"}

\* A work item: its payload kind, the receiving half of its result channel
\* ("waiting", or dropped while the item was queued or while its exchange was
\* in flight), the results sent on the channel, and whether its sending half
\* (the Request) is still alive.
NewItem(k, queued) == [kind |-> k, rx |-> "waiting", sent |-> <<>>, tx |-> queued]

\* A handle enqueues a work item; when the inbox is gone the send fails at once.
Enqueue(k) ==
    /\ Constructed
    /\ senders > 0
    /\ Len(items) < (IF idle_timeout = 0 THEN MaxItems ELSE MaxIdleItems)
    /\ items' = Append(items, NewItem(k, receiverAlive))
    /\ receiver' = IF receiverAlive THEN Append(receiver, Len(items) + 1) ELSE receiver
    /\ UNCHANGED <<idle_timeout, receiverAlive, senders, lastDropOpen, queuedAtDrop, sinceWrite>>
    /\ UNCHANGED actorVars
    /\ UNCHANGED <<framingVars, transactVars, durationVars>>

\* The caller abandons its future: the receiving half of the result channel
\* is dropped.
Cancel(i) ==
    /\ items[i].rx = "waiting"
    /\ items[i].sent = <<>>
    /\ items[i].tx
    /\ items' = [items EXCEPT ![i].rx = IF i = cur THEN "dropped_inflight" ELSE "dropped"]
    /\ UNCHANGED <<idle_timeout, receiver, receiverAlive, senders, lastDropOpen, queuedAtDrop, sinceWrite>>
    /\ UNCHANGED actorVars
    /\ UNCHANGED <<framingVars, transactVars, durationVars>>

CloneHandle ==
    /\ Constructed
    /\ senders > 0
    /\ senders < MaxHandles
    /\ senders' = senders + 1
    /\ UNCHANGED <<idle_timeout, receiver, receiverAlive, items, lastDropOpen, queuedAtDrop, sinceWrite>>
    /\ UNCHANGED actorVars
    /\ UNCHANGED <<framingVars, transactVars, durationVars>>

DropHandle ==
    /\ Constructed
    /\ senders > 0
    /\ senders' = senders - 1
    /\ lastDropOpen' = (senders = 1 /\ state = "Open")
    /\ queuedAtDrop' = IF senders = 1 THEN Len(receiver) ELSE queuedAtDrop
    /\ UNCHANGED <<idle_timeout, receiver, receiverAlive, items, sinceWrite>>
    /\ UNCHANGED actorVars
    /\ UNCHANGED <<framingVars, transactVars, durationVars>>

\* The task that awaited run() ends and drops the connection: the inbox and
\* every work item still queued in it are dropped.
DropConnection ==
    /\ pc = "stopped"
    /\ receiverAlive
    /\ receiverAlive' = FALSE
    /\ receiver' = <<>>
    /\ items' = [i \in 1..Len(items) |->
                    IF \E j \in 1..Len(receiver) : receiver[j] = i
                       THEN [items[i] EXCEPT !.tx = FALSE] ELSE items[i]]
    /\ UNCHANGED <<idle_timeout, senders, lastDropOpen, queuedAtDrop, sinceWrite>>
    /\ UNCHANGED actorVars
    /\ UNCHANGED <<framingVars, transactVars, durationVars>>

\* run() has returned and the task that owns the connection calls it again:
\* message() starts at the top of its loop with the fields as they are.
run_again ==
    /\ pc = "stopped"
    /\ receiverAlive
    /\ shutdowns < MaxShutdowns
    /\ pc' = "top"
    /\ UNCHANGED <<state, greeting, stream, idle_timeout, receiver, receiverAlive,
                   senders, items, cur, run, timer, wire, shutdowns, inFlight, idleT,
                   kaSince, nKa, timedOut, reconnFailed, fatal, lastDropOpen,
                   queuedAtDrop, sinceWrite>>
    /\ UNCHANGED <<framingVars, transactVars, durationVars>>

\* Time passes while the actor waits for a work item, none is queued and the
\* timer, when an idle timeout is set, has not expired; with none set there
\* is no timer and only the idle time grows.  The actor's own steps take no
\* time.
Tick ==
    /\ pc = "wait"
    /\ receiver = <<>>
    /\ senders > 0
    /\ IF idle_timeout > 0
          THEN /\ timer < idle_timeout
               /\ (timer + 1 < idle_timeout \/ nKa < MaxKeepalives)
               /\ timer' = timer + 1
          ELSE /\ idleT < IdleTicks
               /\ timer' = timer
    /\ idleT' = idleT + 1
    /\ sinceWrite' = IF idle_timeout > 0 THEN sinceWrite + 1 ELSE sinceWrite
    /\ UNCHANGED <<state, greeting, stream, idle_timeout, receiver, receiverAlive,
                   senders, items, pc, cur, run, wire, shutdowns, inFlight, kaSince,
                   nKa, timedOut, reconnFailed, fatal, lastDropOpen, queuedAtDrop>>
    /\ UNCHANGED <<framingVars, transactVars, durationVars>>

\* ------------------------------------------------------------- framing
\* The values a byte takes (256 in the code).
ByteBase == 4
\* The longest content and payload enumerated byte by byte.
MaxLen == 2
\* The largest byte count, short of everything asked for, that one read or
\* write of the transport transfers.
MaxChunk == 2
\* The size of the frame header in bytes.
HeaderLen == 4

Byte == 0..(ByteBase - 1)

RECURSIVE Pow(_, _)
Pow(b, e) == IF e = 0 THEN 1 ELSE b * Pow(b, e - 1)

\* u32::MAX, and the modulus of usize arithmetic (a word twice as wide).
U32Max == Pow(ByteBase, HeaderLen) - 1

UsizeMod == (U32Max + 1) * (U32Max + 1)

\* u32::to_be_bytes and u32::from_be_bytes.
to_be_bytes(x) ==
    [k \in 1..HeaderLen |-> (x \div Pow(ByteBase, HeaderLen - k)) % ByteBase]

RECURSIVE from_be_bytes(_)
from_be_bytes(b) ==
    IF b = <<>> THEN 0
    ELSE from_be_bytes(SubSeq(b, 1, Len(b) - 1)) * ByteBase + b[Len(b)]

\* String::from_utf8 accepts the bytes: the lower half of the byte values
\* stand alone, the value above them continues a character and the next
\* one leads a two-byte character; any other value is never valid.
ContByte == ByteBase \div 2

LeadByte == ContByte + 1

from_utf8(b) ==
    \A i \in 1..Len(b) :
       \/ b[i] < ContByte
       \/ b[i] = LeadByte /\ i < Len(b) /\ b[i + 1] = ContByte
       \/ b[i] = ContByte /\ i > 1 /\ b[i - 1] = LeadByte

Seqs(n) == UNION {[1..k -> Byte] : k \in 0..n}

Filled(n) == [i \in 1..n |-> 0]

\* The contents given to write_epp_request: every short string, and long
\* ones around the largest length whose frame length fits in a u32.
Strings ==
    {b \in Seqs(MaxLen) : from_utf8(b)}
       \cup {Filled(n) : n \in (U32Max - HeaderLen - 1)..(U32Max - HeaderLen + 2)}

\* The byte counts one read or write of at most n bytes transfers.
Counts(n) == {k \in 1..n : k <= MaxChunk \/ k >= n - 1}

\* write_epp_request(content), byte by byte: the frame length must fit in a
\* u32, the buffer is the big-endian length followed by the content, and one
\* write is issued whose byte count, when not zero, is taken for success.
\* A length field that counts the content only.
encode_payload_len(c) == to_be_bytes(Len(c)) \o c

encode(c) == to_be_bytes(Len(c) + HeaderLen) \o c

frame_write(c) ==
    /\ frame_pc = "idle"
    /\ content' = c
    /\ IF Len(c) + HeaderLen > U32Max
          THEN /\ wbuf' = <<>>
               /\ wrote' = -1
               /\ bytes' = <<>>
               /\ frame_res' = Err("TryFromInt")
               /\ frame_pc' = "done"
          ELSE /\ wbuf' = encode(c)
               /\ \/ \E n \in Counts(Len(encode(c))) :
                        /\ wrote' = n
                        /\ bytes' = SubSeq(encode(c), 1, n)
                        /\ frame_res' = Ok(NoFrame)
                        /\ frame_pc' = "written"
                  \/ /\ wrote' = 0
                     /\ bytes' = <<>>
                     /\ frame_res' = Err("Eof")
                     /\ frame_pc' = "done"
                  \/ /\ wrote' = -1
                     /\ bytes' = <<>>
                     /\ frame_res' \in {Err("Io"), Err("Timeout")}
                     /\ frame_pc' = "done"
    /\ carried' = bytes'
    /\ UNCHANGED <<buf_size, message_size, buf, partial>>
    /\ UNCHANGED <<connectionVars, transactVars, durationVars>>

\* The peer sends a header with length value l followed by the bytes p.
frame_receive(l, p) ==
    /\ frame_pc = "idle"
    /\ bytes' = to_be_bytes(l) \o p
    /\ carried' = to_be_bytes(l) \o p
    /\ frame_pc' = "written"
    /\ UNCHANGED <<content, wbuf, wrote, buf_size, message_size, buf, partial, frame_res>>
    /\ UNCHANGED <<connectionVars, transactVars, durationVars>>

\* read_epp_response, the header: read_exact of 4 bytes, the length value
\* and message_size = buf_size - 4.  For a length value below 4 the
\* subtraction overflows: a build with overflow checks panics at it, a
\* build without them wraps and panics at the allocation of the buffer.
frame_read_header ==
    /\ frame_pc = "written"
    /\ IF Len(bytes) < HeaderLen
          THEN /\ bytes' = <<>>
               /\ frame_res' \in {Err("Io"), Err("Timeout")}
               /\ frame_pc' = "done"
               /\ UNCHANGED <<buf_size, message_size>>
          ELSE /\ bytes' = SubSeq(bytes, HeaderLen + 1, Len(bytes))
               /\ buf_size' = from_be_bytes(SubSeq(bytes, 1, HeaderLen))
               /\ IF from_be_bytes(SubSeq(bytes, 1, HeaderLen)) < HeaderLen
                     THEN /\ frame_pc' = "panicked"
                          /\ message_size' \in
                                {0, (from_be_bytes(SubSeq(bytes, 1, HeaderLen))
                                       - HeaderLen + UsizeMod) % UsizeMod}
                          /\ UNCHANGED frame_res
                     ELSE /\ frame_pc' = "payload"
                          /\ message_size' =
                                from_be_bytes(SubSeq(bytes, 1, HeaderLen)) - HeaderLen
                          /\ UNCHANGED frame_res
    /\ buf' = <<>>
    /\ UNCHANGED <<content, wbuf, wrote, carried, partial>>
    /\ UNCHANGED <<connectionVars, transactVars, durationVars>>

\* read_size: the payload bytes received so far.
read_size == Len(buf)

\* A read into the whole buffer, whatever is in it already.
buf_whole == message_size

\* The length of buf[read_size..], the slice a payload read is given.
buf_rest == message_size - read_size

\* read_epp_response, one turn of the payload loop: a read into the rest of
\* the buffer.  With nothing left to come, or no room in the buffer, the
\* read returns zero bytes, which is the EOF error, or does not return
\* before the timeout; otherwise the loop ends once message_size bytes are
\* in and the bytes are turned into a String.
frame_read_payload ==
    /\ frame_pc = "payload"
    /\ IF buf_rest = 0 \/ bytes = <<>>
          THEN /\ frame_res' \in {Err("Eof"), Err("Timeout")}
               /\ frame_pc' = "done"
               /\ UNCHANGED <<bytes, buf, partial>>
          ELSE \E read \in Counts(IF Len(bytes) < buf_rest
                                     THEN Len(bytes) ELSE buf_rest) :
                  /\ buf' = buf \o SubSeq(bytes, 1, read)
                  /\ bytes' = SubSeq(bytes, read + 1, Len(bytes))
                  /\ partial' = (partial \/ read < buf_rest)
                  /\ IF read_size + read >= message_size
                        THEN /\ frame_pc' = "done"
                             /\ frame_res' = IF from_utf8(buf \o SubSeq(bytes, 1, read))
                                                THEN Ok(buf \o SubSeq(bytes, 1, read))
                                                ELSE Err("Utf8")
                        ELSE /\ UNCHANGED <<frame_pc, frame_res>>
    /\ UNCHANGED <<content, wbuf, wrote, carried, buf_size, message_size>>
    /\ UNCHANGED <<connectionVars, transactVars, durationVars>>

\* ------------------------------------------------------------- transact

\* The result codes of RFC 5730 that ResultCode enumerates.
ResultCodes ==
    {1000, 1001, 1300, 1301, 1500,
     2000, 2001, 2002, 2003, 2004, 2005,
     2100, 2101, 2102, 2103, 2104, 2105, 2106,
     2200, 2201, 2202,
     2300, 2301, 2302, 2303, 2304, 2305, 2306, 2307, 2308,
     2400, 2500, 2501, 2502}

\* Values of the code attribute a server can send: the enumerated ones and
\* some that ResultCode does not know.
WireCodes == ResultCodes \cup {0, 999, 1002, 1999, 2503, 65535}

\* The transaction ids a response can carry.
TrIds == {1, 2}

\* ResultCode::from_u16: None for a value that is not enumerated.
from_u16(code) == IF code \in ResultCodes THEN {code} ELSE {}

\* Success taken to be the one code 1000.
is_success_1000(code) == code = 1000

\* ResultCode::is_success
is_success(code) == code \in {1000, 1001, 1300, 1301, 1500}

\* Error::Command with the ResponseStatus of the response.
CommandError(r) ==
    [ok |-> FALSE, val |-> NoResponse, err |-> "Command",
     status |-> [result |-> r.code, tr_ids |-> r.tr_ids]]

\* transact up to the end of the exchange: the document is serialized and
\* sent; an error of the serializer or of the connection is returned as it
\* is, by the two ? operators, otherwise the response is at hand.
transact_exchange ==
    /\ t_pc = "idle"
    /\ \/ /\ \E e \in {"Xml", "Timeout", "Io", "Eof", "Utf8"} : t_result' = TransactErr(e)
          /\ t_pc' = "done"
          /\ UNCHANGED response_xml
       \/ /\ \E w \in BOOLEAN, c \in WireCodes, t \in TrIds, d \in BOOLEAN :
                response_xml' = [wellformed |-> w, code |-> c, tr_ids |-> t, res_data |-> d]
          /\ t_pc' = "responded"
          /\ UNCHANGED t_result
    /\ UNCHANGED rsp
    /\ UNCHANGED <<connectionVars, framingVars, durationVars>>

\* xml::deserialize::<Response<..>>: fails on a document that does not match
\* the Response type and on a result code from_u16 does not know.
transact_deserialize ==
    /\ t_pc = "responded"
    /\ IF response_xml.wellformed /\ from_u16(response_xml.code) # {}
          THEN /\ rsp' = [code |-> response_xml.code, tr_ids |-> response_xml.tr_ids,
                          res_data |-> response_xml.res_data]
               /\ t_pc' = "deserialized"
               /\ UNCHANGED t_result
          ELSE /\ t_result' = TransactErr("Xml")
               /\ t_pc' = "done"
               /\ UNCHANGED rsp
    /\ UNCHANGED response_xml
    /\ UNCHANGED <<connectionVars, framingVars, durationVars>>

\* transact, the end: Ok(rsp) for a success code, Error::Command otherwise.
transact_return ==
    /\ t_pc = "deserialized"
    /\ t_result' = IF is_success(rsp.code) THEN TransactOk(rsp) ELSE CommandError(rsp)
    /\ t_pc' = "done"
    /\ UNCHANGED <<response_xml, rsp>>
    /\ UNCHANGED <<connectionVars, framingVars, durationVars>>

\* ------------------------------------------------------------- XsdDuration
\* A string is a sequence of characters.
Digits == <<"0", "1", "2", "3", "4", "5", "6", "7", "8", "9">>

IsDigit(c) == \E n \in 1..Len(Digits) : Digits[n] = c

DigitVal(c) == (CHOOSE n \in 1..Len(Digits) : Digits[n] = c) - 1

\* str::starts_with
starts_with(str, c) == str # <<>> /\ str[1] = c

\* str::contains
contains(str, c) == \E k \in 1..Len(str) : str[k] = c

\* str::trim_start_matches: every leading c is removed.
RECURSIVE trim_start_matches(_, _)
trim_start_matches(str, c) ==
    IF starts_with(str, c) THEN trim_start_matches(Tail(str), c) ELSE str

\* str::split_once: the parts before and after the first c, if there is one.
split_once(str, c) ==
    IF contains(str, c)
       THEN LET k == CHOOSE k \in 1..Len(str) :
                        str[k] = c /\ \A j \in 1..(k - 1) : str[j] # c
            IN  [some |-> TRUE, l |-> SubSeq(str, 1, k - 1), r |-> SubSeq(str, k + 1, Len(str))]
       ELSE [some |-> FALSE, l |-> <<>>, r |-> str]

\* The value of a string of digits.
RECURSIVE Decimal(_)
Decimal(str) ==
    IF str = <<>> THEN 0
    ELSE 10 * Decimal(SubSeq(str, 1, Len(str) - 1)) + DigitVal(str[Len(str)])

\* str::parse::<u32>: a non-empty string of digits.
parse_u32(str) ==
    IF str # <<>> /\ \A k \in 1..Len(str) : IsDigit(str[k])
       THEN [ok |-> TRUE, val |-> Decimal(str)]
       ELSE [ok |-> FALSE, val |-> 0]

\* str::parse::<f64>, for whole numbers: digits with an optional sign.
parse_f64(str) ==
    IF starts_with(str, "-")
       THEN [ok |-> parse_u32(Tail(str)).ok, val |-> 0 - parse_u32(Tail(str)).val]
       ELSE parse_u32(str)

\* XsdDuration::new
XsdDuration_new(months, seconds) ==
    IF (months < 0 /\ seconds > 0) \/ (months > 0 /\ seconds < 0)
       THEN DurationErr("InvalidMinutesOrSeconds")
       ELSE DurationOk(Duration(months, seconds))

\* from_str, duDayTimeFrag after the 'T': hours, minutes and seconds.
from_str_time(str) ==
    LET sh == split_once(str, "H")
        h  == IF sh.some THEN parse_u32(sh.l) ELSE [ok |-> TRUE, val |-> 0]
        s1 == IF sh.some THEN sh.r ELSE str
        sm == split_once(s1, "M")
        m  == IF sm.some THEN parse_u32(sm.l) ELSE [ok |-> TRUE, val |-> 0]
        s2 == IF sm.some THEN sm.r ELSE s1
        sx == split_once(s2, "S")
        ss == IF sx.some THEN parse_f64(sx.l) ELSE [ok |-> TRUE, val |-> 0]
    IN  [ok |-> h.ok /\ m.ok /\ ss.ok, val |-> 3600 * h.val + 60 * m.val + ss.val]

\* XsdDuration::from_str
from_str(str) ==
    LET sgn == IF starts_with(str, "-") THEN -1 ELSE 1
        s0  == trim_start_matches(str, "-")
        s1  == Tail(s0)
        sy  == split_once(s1, "Y")
        y   == IF sy.some THEN parse_u32(sy.l) ELSE [ok |-> TRUE, val |-> 0]
        s2  == IF sy.some THEN sy.r ELSE s1
        sm  == split_once(s2, "M")
        inM == sm.some /\ ~contains(sm.l, "T")
        m   == IF inM THEN parse_u32(sm.l) ELSE [ok |-> TRUE, val |-> 0]
        s3  == IF inM THEN sm.r ELSE s2
        months == 12 * y.val + m.val * sgn
        sd  == split_once(s3, "D")
        d   == IF sd.some THEN parse_u32(sd.l) ELSE [ok |-> TRUE, val |-> 0]
        s4  == IF sd.some THEN sd.r ELSE s3
        t   == from_str_time(Tail(s4))
    IN  IF ~starts_with(s0, "P") THEN DurationErr("ParseError")
        ELSE IF ~y.ok \/ ~m.ok \/ ~d.ok THEN DurationErr("ParseError")
        ELSE IF ~starts_with(s4, "T") THEN DurationOk(Duration(months, 86400 * d.val))
        ELSE IF ~t.ok THEN DurationErr("ParseError")
        ELSE DurationOk(Duration(months, 86400 * d.val + t.val))

\* The duration strings given to from_str: an optional '-', 'P', then each
\* of the year, month and day fields absent or a digit, then nothing or 'T'
\* with each of the hour, minute and second fields absent or a digit, the
\* seconds also with a sign of their own.
Field(letter) == {<<>>} \cup {<<Digits[n + 1], letter>> : n \in 0..MaxDigit}

SecondsField == Field("S") \cup {<<"-", Digits[2], "S">>}

DurationStrings ==
    { sg \o <<"P">> \o y \o m \o d \o t :
         sg \in {<<>>, <<"-">>}, y \in Field("Y"), m \in Field("M"), d \in Field("D"),
         t \in {<<>>} \cup { <<"T">> \o h \o mi \o se :
                                h \in Field("H"), mi \in {<<>>, <<Digits[2], "M">>},
                                se \in SecondsField } }

\* A caller parses a duration string.
duration_from_str ==
    /\ d_pc = "idle"
    /\ \E str \in DurationStrings :
          /\ d_input' = str
          /\ d_result' = from_str(str)
    /\ d_pc' = "from_str"
    /\ UNCHANGED d_args
    /\ UNCHANGED <<connectionVars, framingVars, transactVars>>

\* A caller constructs a duration from months and seconds.
duration_new ==
    /\ d_pc = "idle"
    /\ \E months \in (0 - 12 * MaxDigit)..(12 * MaxDigit), seconds \in {0 - 3600, 0 - 1, 0, 1, 3600} :
          /\ d_args' = Duration(months, seconds)
          /\ d_result' = XsdDuration_new(months, seconds)
    /\ d_pc' = "new"
    /\ UNCHANGED d_input
    /\ UNCHANGED <<connectionVars, framingVars, transactVars>>

\* ------------------------------------------------------------- properties
InQueue(i) == \E j \in 1..Len(receiver) : receiver[j] = i

Written(i) == \E a \in 1..Len(wire) : wire[a] = ReqFrame(i)

IsPrefix(p, q) == Len(p) <= Len(q) /\ \A j \in 1..Len(p) : p[j] = q[j]

\* C1: work items are numbered in the order they were enqueued.  The request
\* frames appear on the wire in that order, each at most once, and as long as
\* no read has timed out every successful result delivered for a raw request
\* is the response to that very request.
C1_FifoAndPairing ==
    /\ \A a, b \in 1..Len(wire) :
          (a < b /\ wire[a].kind = "req" /\ wire[b].kind = "req") => wire[a].id < wire[b].id
    /\ ~timedOut =>
          \A i \in 1..Len(items) :
             (items[i].kind = "Request" /\ items[i].sent # <<>> /\ items[i].sent[1].ok)
                => items[i].sent[1].val = RespFrame(i)

\* Two handles are alive and two raw requests were outstanding together: both
\* were written in enqueue order, the first has been answered with its own
\* response and the second is in flight.
C1_Witness ==
    /\ senders = 2
    /\ Len(items) = 2
    /\ wire = <<ReqFrame(1), ReqFrame(2)>>
    /\ items[1].sent = <<Ok(RespFrame(1))>>
    /\ pc = "reading"
    /\ cur = 2

\* C2 as stated: once an item's receiver was dropped while its exchange was in
\* flight, a later raw request that gets a successful result gets the response
\* to its own request.
C2_NextGetsOwnResponse ==
    \A i, j \in 1..Len(items) :
       (/\ i < j
        /\ items[i].rx = "dropped_inflight"
        /\ items[j].kind = "Request"
        /\ items[j].sent # <<>>
        /\ items[j].sent[1].ok)
          => items[j].sent[1].val = RespFrame(j)

InFlightPc == pc \in {"reading", "keepalive_reading"}

\* C3: at most one frame is written and not yet answered; while one is, the
\* actor is reading, writes no frame and takes no work item from the inbox.
C3_OneExchangeInFlight ==
    [][ /\ inFlight' \in {0, 1}
        /\ (inFlight' = 1) <=> (pc' \in {"reading", "keepalive_reading"})
        /\ InFlightPc =>
              /\ wire' = wire
              /\ IsPrefix(receiver, receiver')
              /\ cur' \in {cur, 0} ]_vars

\* A request is in flight while another work item waits in the inbox.
C3_Witness ==
    /\ pc = "reading"
    /\ inFlight = 1
    /\ receiver # <<>>

Taken(k) ==
    /\ pc = "wait"
    /\ receiver # <<>>
    /\ receiver' = Tail(receiver)
    /\ items[Head(receiver)].kind = k

\* What a result channel holds after res was sent on it.
Answered(it, res) == IF it.rx = "waiting" THEN <<res>> ELSE <<>>

\* C5: the step of new() that reads the greeting successfully caches the first
\* frame on the transport and opens the connection; the step that processes a
\* Greeting work item answers it with the cached greeting and neither reads
\* from nor writes to the transport.
C5_GreetingFromCache ==
    [][ /\ (pc = "new_greeting" /\ pc' = "top") =>
              /\ stream = FreshStream(1)
              /\ greeting' = Head(stream.in)
              /\ state' = "Open"
        /\ Taken("Greeting") =>
              /\ items'[Head(receiver)].sent = Answered(items[Head(receiver)], Ok(greeting))
              /\ greeting' = greeting
              /\ stream' = stream
              /\ wire' = wire
              /\ inFlight' = inFlight ]_vars

\* A Greeting query was answered with the first frame of the first stream and
\* nothing was ever written to the transport.
C5_Witness ==
    /\ wire = <<>>
    /\ stream = [id |-> 1, in |-> <<>>, hellos |-> 0, eof |-> FALSE]
    /\ \E i \in 1..Len(items) :
          items[i].kind = "Greeting" /\ items[i].sent = <<Ok(GreetingFrame(1, 0))>>

\* The last n frames written to the transport are hellos.
EndsWithHellos(w, n) ==
    /\ n <= Len(w)
    /\ \A k \in 1..n : w[Len(w) + 1 - k] = HelloFrame

KeepaliveStep ==
    \/ pc = "wait" /\ nKa' # nKa
    \/ pc = "keepalive_reading" /\ pc' # pc

\* C7: no step of a keepalive round trip removes a work item from the inbox or
\* sends on a result channel; the step that completes the round trip replaces
\* the cached greeting with the frame it read; and a Greeting query taken after
\* a keepalive is answered with the cache, which is the server's reply to the
\* last hello unless an earlier read timed out.
C7_KeepaliveRefreshesGreeting ==
    [][ /\ KeepaliveStep => (receiver' = receiver /\ items' = items)
        /\ (pc = "keepalive_reading" /\ pc' = "wait") =>
              /\ stream.in # <<>>
              /\ greeting' = Head(stream.in)
              /\ stream' = [stream EXCEPT !.in = Tail(@)]
        /\ (Taken("Greeting") /\ kaSince > 0) =>
              /\ items'[Head(receiver)].sent = Answered(items[Head(receiver)], Ok(greeting))
              /\ ~timedOut => greeting = GreetingFrame(stream.id, stream.hellos) ]_vars

\* One keepalive was done on the first stream and a Greeting query after it was
\* answered with the server's reply to that hello.
C7_Witness ==
    /\ wire = <<HelloFrame>>
    /\ stream.id = 1
    /\ \E i \in 1..Len(items) :
          items[i].kind = "Greeting" /\ items[i].sent = <<Ok(GreetingFrame(1, 1))>>

\* C8: a Reconnect work item is processed by replacing the stream with the fresh
\* one of the Connector (state Opening) and then reading its first frame; when
\* that read succeeds the state is Open, the stream is still the fresh one, the
\* cached greeting is that first frame and the requester is sent Ok; and a
\* Greeting query answered after it, with no keepalive or further reconnect in
\* between, returns the same new greeting.
C8_ReconnectRenews ==
    /\ [][ /\ (Taken("Reconnect") /\ pc' = "reconnect_greeting") =>
                /\ state' = "Opening"
                /\ stream' = FreshStream(stream.id + 1)
                /\ wire' = wire
           /\ (pc = "reconnect_greeting" /\ pc' = "top") =>
                /\ state' = "Open"
                /\ stream.in # <<>>
                /\ stream' = [stream EXCEPT !.in = Tail(@)]
                /\ greeting' = Head(stream.in)
                /\ greeting' = GreetingFrame(stream.id, 0)
                /\ items'[cur].kind = "Reconnect"
                /\ items'[cur].sent = Answered(items[cur], Ok(greeting')) ]_vars
    /\ [](\A i, j \in 1..Len(items) :
             (/\ idle_timeout = 0
              /\ i < j
              /\ items[i].kind = "Reconnect"
              /\ items[i].sent # <<>>
              /\ items[i].sent[1].ok
              /\ items[j].kind = "Greeting"
              /\ items[j].sent # <<>>
              /\ \A k \in (i + 1)..(j - 1) : items[k].kind # "Reconnect")
                => items[j].sent = items[i].sent)

\* A reconnect succeeded: the state is Open on the second stream, the requester
\* got the greeting of that stream and so did a later Greeting query.
C8_Witness ==
    /\ state = "Open"
    /\ stream.id = 2
    /\ greeting = GreetingFrame(2, 0)
    /\ Len(items) = 2
    /\ items[1].kind = "Reconnect"
    /\ items[1].sent = <<Ok(GreetingFrame(2, 0))>>
    /\ items[2].kind = "Greeting"
    /\ items[2].sent = <<Ok(GreetingFrame(2, 0))>>

\* The work item a step of reconnect() is about.
ReconnectItem == IF pc = "wait" THEN Head(receiver) ELSE cur

Outcome(it) ==
    IF it.sent # <<>> THEN it.sent[1]
    ELSE IF it.tx THEN [ok |-> FALSE, val |-> NoFrame, err |-> "Pending"]
    ELSE Err("Closed")

Resolved(it) == it.rx # "waiting" \/ Outcome(it).err # "Pending"

Processed(i) == receiverAlive /\ ~InQueue(i) /\ i # cur

\* C11 as stated: every work item the actor has dequeued and finished, and
\* whose caller is still attached, has exactly one Result on its result
\* channel.  A failed write of a request leaves the channel empty.
C11_ExactlyOneResult ==
    \A i \in 1..Len(items) :
       (Processed(i) /\ items[i].rx = "waiting") => Len(items[i].sent) = 1

\* C12 as stated: the step at which the write of a dequeued request times out
\* (message() ends with Error::Timeout), and the step at which the read of
\* its response times out, leave Err(Timeout) on the result channel of an
\* attached caller.  The write half fails: nothing is sent after a failed
\* write.
C12_TimeoutReachesCaller ==
    [][ /\ (Taken("Request") /\ pc' = "stopped" /\ run'.cause = "Timeout") =>
              items'[Head(receiver)].sent =
                 Answered(items[Head(receiver)], Err("Timeout"))
        /\ (pc = "reading" /\ ~timedOut /\ timedOut') =>
              items'[cur].sent = Answered(items[cur], Err("Timeout")) ]_vars

\* A raw request has been answered with the error of a failed read.
ReadIoFailed(it) ==
    /\ it.kind = "Request"
    /\ it.sent # <<>>
    /\ it.sent[1].err \in {"Io", "Eof"}

\* C13 as stated: with the connection Open, the step at which the write of a
\* request fails (zero bytes written or a write error) and the step at which
\* the read of its response fails (the stream ends in the header or in the
\* payload) set the state to Closed at once, and after such a failure no
\* frame is written to the transport.
C13_IoErrorCloses ==
    [][ /\ (state = "Open" /\ Taken("Request") /\ pc' = "stopped"
                /\ run'.cause \in {"Io", "Eof"}) => state' = "Closed"
        /\ (state = "Open" /\ pc = "reading" /\ ReadIoFailed(items'[cur])) =>
              state' = "Closed"
        /\ (\E i \in 1..Len(items) : ReadIoFailed(items[i])) => wire' = wire ]_vars

\* C14: the step at which the read of a response meets a zero-byte read inside
\* the payload sends Err(Eof) to the attached caller, sets the state to Closed
\* and takes message() back to the top of its loop, touching neither the inbox
\* nor the wire; from the top of the loop a Closed connection goes nowhere but
\* to the end of run(), again without dequeuing or writing.
C14_PayloadEofStops ==
    [][ /\ (pc = "reading" /\ items'[cur].sent = <<Err("Eof")>>) =>
              /\ items[cur].sent = <<>>
              /\ state' = "Closed"
              /\ pc' = "top"
              /\ receiver' = receiver
              /\ wire' = wire
        /\ (pc = "top" /\ state = "Closed" /\ pc' # pc) =>
              /\ pc' = "stopped"
              /\ run'.cause = "None"
              /\ receiver' = receiver
              /\ wire' = wire
              /\ stream' = stream ]_vars

\* The stream ended inside the payload of the first response: its caller holds
\* the EOF error, the connection is Closed, run() has ended and the second
\* request is still in the inbox, unwritten.
C14_Witness ==
    /\ pc = "stopped"
    /\ state = "Closed"
    /\ run.cause = "None"
    /\ wire = <<ReqFrame(1)>>
    /\ items[1].sent = <<Err("Eof")>>
    /\ Len(items) = 2
    /\ items[2].kind = "Request"
    /\ InQueue(2)

\* C19: the transport shutdown is invoked only on an empty inbox.  Once it
\* has been invoked no work item is left queued, every work item enqueued
\* before the last handle was dropped has been dequeued, in enqueue order on
\* the wire, and has had its one result sent to a caller still waiting.
C19_DrainBeforeShutdown ==
    shutdowns > 0 =>
       /\ receiver = <<>>
       /\ \A i \in 1..Len(items) :
             /\ ~InQueue(i)
             /\ items[i].rx = "waiting" => Len(items[i].sent) = 1
             /\ items[i].kind = "Request" => Written(i)
       /\ \A a, b \in 1..Len(wire) :
             (a < b /\ wire[a].kind = "req" /\ wire[b].kind = "req") => wire[a].id < wire[b].id

\* The last handle was dropped with two raw requests queued; both were
\* written in order and answered, and then the shutdown was invoked.
C19_Witness ==
    /\ shutdowns = 1
    /\ queuedAtDrop = 2
    /\ wire = <<ReqFrame(1), ReqFrame(2)>>
    /\ items[1].sent = <<Ok(RespFrame(1))>>
    /\ items[2].sent = <<Ok(RespFrame(2))>>

\* C20: with no idle timeout set the actor never runs keepalive(): no hello
\* is ever written, every frame on the wire is the request of a work item
\* that was dequeued, and the timer never runs, however long the actor has
\* been waiting on an empty inbox.
C20_NoKeepaliveWithoutTimeout ==
    idle_timeout = 0 =>
       /\ nKa = 0
       /\ timer = 0
       /\ pc # "keepalive_reading"
       /\ \A a \in 1..Len(wire) :
             /\ wire[a].kind = "req"
             /\ wire[a].id \in 1..Len(items)
             /\ items[wire[a].id].kind = "Request"
             /\ ~InQueue(wire[a].id)

\* No idle timeout is set; one request was served and the actor has since
\* waited on an empty inbox for as long as an idle timeout lasts where one
\* is set: the wire holds the request and nothing else.
C20_Witness ==
    /\ idle_timeout = 0
    /\ pc = "wait"
    /\ receiver = <<>>
    /\ senders > 0
    /\ idleT = IdleTicks
    /\ wire = <<ReqFrame(1)>>
    /\ items[1].sent = <<Ok(RespFrame(1))>>

\* The whole buffer of a request reached the transport.
WrittenWhole == frame_pc # "idle" /\ wbuf # <<>> /\ wrote = Len(wbuf)

\* C15 as stated: when the bytes written for a content s, all of them, are
\* read back as a frame, the read returns s, and the first four bytes written
\* are Len(s) + 4 in big-endian.  The empty content is not read back.
C15_FramingRoundTrip ==
    WrittenWhole =>
       /\ from_be_bytes(SubSeq(carried, 1, HeaderLen)) = Len(content) + HeaderLen
       /\ frame_pc = "done" => frame_res = Ok(content)

\* C16: the buffer of a request of n bytes has n + 4 bytes, the first four
\* being n + 4 in big-endian and the rest the content unchanged; when n + 4
\* does not fit the length field the write fails with an error and no byte
\* reaches the transport.
C16_EncodeFrame ==
    /\ wbuf # <<>> =>
          /\ Len(content) + HeaderLen <= U32Max
          /\ Len(wbuf) = Len(content) + HeaderLen
          /\ SubSeq(wbuf, 1, HeaderLen) = to_be_bytes(Len(content) + HeaderLen)
          /\ from_be_bytes(SubSeq(wbuf, 1, HeaderLen)) = Len(content) + HeaderLen
          /\ SubSeq(wbuf, HeaderLen + 1, Len(wbuf)) = content
    /\ (frame_pc # "idle" /\ Len(content) + HeaderLen > U32Max) =>
          /\ frame_res = Err("TryFromInt")
          /\ wrote = -1
          /\ wbuf = <<>>
          /\ carried = <<>>
          /\ bytes = <<>>

\* A content one byte too long for the length field has been refused.
C16_Witness ==
    /\ frame_pc = "done"
    /\ Len(content) = U32Max - HeaderLen + 1
    /\ frame_res = Err("TryFromInt")
    /\ wrote = -1

\* The header of the frame being read has been taken and its length value
\* is below the size of the header itself.
ShortHeaderRead ==
    /\ frame_pc \notin {"idle", "written"}
    /\ Len(carried) >= HeaderLen
    /\ from_be_bytes(SubSeq(carried, 1, HeaderLen)) < HeaderLen

\* C17 as stated: a header with a length value of 0, 1, 2 or 3 ends the read
\* with an error value; the actor does not panic and no payload size is
\* computed by wrapping L - 4 around the machine word.
C17_ShortHeaderIsError ==
    ShortHeaderRead =>
       /\ frame_pc = "done"
       /\ ~frame_res.ok
       /\ message_size = 0

\* A header with a length value above 4 has been read and the transport
\* holds, or has delivered, every payload byte that header announces.
PayloadArrives ==
    /\ frame_pc \in {"payload", "done"}
    /\ message_size > 0
    /\ Len(carried) >= HeaderLen + message_size

\* C18: however the transport splits the payload into chunks, the loop
\* takes the bytes in order and loses none, never holds more than L - 4 of
\* them, so the bytes after the payload stay in the transport, and ends with
\* exactly the L - 4 payload bytes as its result (the UTF-8 error when they
\* are not valid UTF-8).
C18_ChunkedRead ==
    PayloadArrives =>
       /\ buf \o bytes = SubSeq(carried, HeaderLen + 1, Len(carried))
       /\ read_size <= message_size
       /\ frame_pc = "done" =>
             /\ buf = SubSeq(carried, HeaderLen + 1, HeaderLen + message_size)
             /\ bytes = SubSeq(carried, HeaderLen + message_size + 1, Len(carried))
             /\ frame_res = IF from_utf8(buf) THEN Ok(buf) ELSE Err("Utf8")

\* A payload of two bytes came in two chunks and was returned whole, with a
\* byte of the following frame left in the transport.
C18_Witness ==
    /\ PayloadArrives
    /\ frame_pc = "done"
    /\ partial
    /\ message_size = 2
    /\ frame_res = Ok(buf)
    /\ bytes # <<>>

\* C21: once a response has been deserialized, transact returns the typed
\* response, whole, exactly when its result code is 1000, 1001, 1300, 1301 or
\* 1500; for every other code it returns Error::Command carrying the result
\* and the transaction ids of that response, with no success value in it.
C21_TransactSuccessIffCode ==
    /\ t_result.ok => (t_pc = "done" /\ rsp # NoResponse)
    /\ (t_pc = "done" /\ rsp # NoResponse) =>
          IF rsp.code \in {1000, 1001, 1300, 1301, 1500}
             THEN t_result = [ok |-> TRUE, val |-> rsp, err |-> "", status |-> NoStatus]
             ELSE /\ ~t_result.ok
                  /\ t_result.err = "Command"
                  /\ t_result.val = NoResponse
                  /\ t_result.status = [result |-> rsp.code, tr_ids |-> rsp.tr_ids]

\* A response with code 2303 and response data was deserialized and
\* transact returned the Command error with that code and its ids.
C21_Witness ==
    /\ t_pc = "done"
    /\ rsp = [code |-> 2303, tr_ids |-> 2, res_data |-> TRUE]
    /\ t_result.err = "Command"
    /\ t_result.status = [result |-> 2303, tr_ids |-> 2]

\* C22 as stated: what run() returns tells why its loop ended.  It is an
\* error when message() ended the loop with an error (a failed write, a
\* failed keepalive, a failed reconnect, a failed shutdown), and Ok when the
\* loop ended with the shutdown that follows the drop of the last handle.
C22_RunOutcomeTellsReason ==
    pc = "stopped" =>
       /\ run.cause # "None" => run.result # "Ok"
       /\ (run.cause = "None" /\ shutdowns = 1) => run.result = "Ok"

\* C23 as stated: when write_epp_request has reported success, and the read
\* of the response may begin, every byte of the buffer has reached the
\* transport; no proper prefix of the frame is left on the wire.
C23_WholeFrameWritten ==
    (wbuf # <<>> /\ wrote > 0 /\ frame_pc # "idle") => carried = wbuf

\* C24 as stated: after the read of a raw request's response ended with the
\* Timeout error, a later raw request that gets a successful result gets the
\* response to its own request, never the late response of the request that
\* timed out.
C24_NoLateResponseForNext ==
    \A i, j \in 1..Len(items) :
       (/\ i < j
        /\ items[i].kind = "Request"
        /\ items[i].sent = <<Err("Timeout")>>
        /\ items[j].kind = "Request"
        /\ items[j].sent # <<>>
        /\ items[j].sent[1].ok)
          => items[j].sent[1].val = RespFrame(j)

\* C25 as stated: a Closed connection is brought back by a Reconnect work
\* item.  With a Reconnect at the head of the inbox, the actor in state
\* Closed does not end its loop but goes on to dequeue the item; and every
\* step that leaves Closed is the reconnect going to Opening.
C25_ReconnectLeavesClosed ==
    [][ /\ (/\ state = "Closed"
            /\ receiver # <<>>
            /\ items[Head(receiver)].kind = "Reconnect"
            /\ pc = "top"
            /\ pc' # pc) => pc' # "stopped"
        /\ (state = "Closed" /\ state' # state) => state' = "Opening" ]_vars

\* C26 as stated: the state starts as Opening and every change of it is one
\* of Opening->Open, Open->Closing, Closing->Closed, Open->Closed and
\* Closed->Opening.
C26_OnlyListedTransitions ==
    [][ /\ pc = "new" => state = "Opening"
        /\ state' # state =>
              <<state, state'>> \in { <<"Opening", "Open">>, <<"Open", "Closing">>,
                                     <<"Closing", "Closed">>, <<"Open", "Closed">>,
                                     <<"Closed", "Opening">> } ]_vars

\* C27 as stated: when the transport's shutdown call returns, with success or
\* with failure, the state goes from Closing to Closed.
C27_ClosedAfterShutdown ==
    [][ (pc = "closing" /\ pc' # pc) => (state = "Closing" /\ state' = "Closed") ]_vars

\* C28 as stated: the actor writes a request frame, for a work item or as a
\* keepalive hello, only in state Open, and takes a work item from the inbox
\* only in state Open, also after run() has returned and is invoked again.
C28_WorkOnlyWhenOpen ==
    [][ /\ wire' # wire => state = "Open"
        /\ (/\ pc = "wait"
            /\ pc' # pc
            /\ receiver # <<>>
            /\ receiver' = Tail(receiver)) => state = "Open" ]_vars

\* C29 as stated: a failure is handled for a keepalive as it is for a client
\* request.  A read that times out or returns invalid UTF-8 for a client
\* request leaves the state as it is and the loop running, and so does the
\* same failure of the read of a keepalive.
C29_KeepaliveFailsLikeRequest ==
    [][ /\ (/\ pc = "reading"
            /\ pc' # pc
            /\ items'[cur].sent \in {<<Err("Timeout")>>, <<Err("Utf8")>>})
              => (pc' = "top" /\ state' = state)
        /\ (/\ pc = "keepalive_reading"
            /\ pc' # pc
            /\ run'.cause \in {"Timeout", "Utf8"})
              => (pc' # "stopped" /\ state' = state) ]_vars

\* C30: a response frame that was read whole but is not valid UTF-8 costs
\* its own exchange only.  The error goes to the caller of that exchange and
\* to no other work item, the frame is off the stream, the state stays Open
\* and the loop goes on; as long as no read has timed out, a later raw
\* request that is answered gets the response to its own request.
C30_Utf8ErrorIsLocal ==
    /\ [][ (pc = "reading" /\ items'[cur].sent = <<Err("Utf8")>>) =>
              /\ state = "Open"
              /\ state' = "Open"
              /\ pc' = "top"
              /\ stream'.in = Tail(stream.in)
              /\ receiver' = receiver
              /\ \A i \in 1..Len(items) : i # cur => items'[i] = items[i] ]_vars
    /\ [](~timedOut =>
            \A i, j \in 1..Len(items) :
               (/\ i < j
                /\ items[i].sent = <<Err("Utf8")>>
                /\ items[j].kind = "Request"
                /\ items[j].sent # <<>>
                /\ items[j].sent[1].ok)
                  => (items[j].sent[1].val = RespFrame(j) /\ Written(j)))

\* The response to request 1 was not valid UTF-8 and its caller got the
\* error; request 2 was then written and answered with its own response,
\* and the connection is Open.
C30_Witness ==
    /\ state = "Open"
    /\ wire = <<ReqFrame(1), ReqFrame(2)>>
    /\ items[1].sent = <<Err("Utf8")>>
    /\ items[2].sent = <<Ok(RespFrame(2))>>
    /\ pc = "top"

\* C31: a result that cannot be delivered because the caller dropped the
\* receiving half is dropped and nothing else happens: the step that would
\* have delivered it leaves the loop running at its top, calls no shutdown
\* and puts nothing on the channel; a Greeting query leaves the state as it
\* is, a read leaves it Open unless the stream itself has ended, and so does
\* a reconnect that succeeded.
C31_DroppedReceiverNotFatal ==
    [][ /\ (/\ pc = "reading"
            /\ pc' # pc
            /\ items[cur].rx # "waiting"
            /\ ~stream'.eof)
              => /\ pc' = "top"
                 /\ state' = "Open"
                 /\ shutdowns' = shutdowns
                 /\ items'[cur].sent = <<>>
                 /\ receiver' = receiver
        /\ (/\ pc = "reconnect_greeting"
            /\ state' = "Open"
            /\ items[cur].rx # "waiting")
              => /\ pc' = "top"
                 /\ shutdowns' = shutdowns
                 /\ items'[cur].sent = <<>>
                 /\ receiver' = receiver
        /\ (/\ Taken("Greeting")
            /\ items[Head(receiver)].rx # "waiting")
              => /\ pc' = "top"
                 /\ state' = state
                 /\ shutdowns' = shutdowns
                 /\ items'[Head(receiver)].sent = <<>> ]_vars

\* The caller of request 1 dropped its receiver while the exchange was in
\* flight; the exchange was completed, nothing was delivered, and request 2
\* was then dequeued, written and answered on the Open connection.
C31_Witness ==
    /\ state = "Open"
    /\ shutdowns = 0
    /\ Len(items) = 2
    /\ items[1].rx = "dropped_inflight"
    /\ items[1].sent = <<>>
    /\ wire = <<ReqFrame(1), ReqFrame(2)>>
    /\ items[2].sent = <<Ok(RespFrame(2))>>
    /\ pc = "wait"

\* The number of times the request frame of work item i is on the wire.
TimesWritten(w, i) == Cardinality({a \in 1..Len(w) : w[a] = ReqFrame(i)})

\* C32: nothing is tried twice.  The request frame of a work item is written
\* at most once; a work item the actor is done with, whether its exchange
\* succeeded, failed or timed out, is never taken up again: it does not come
\* back to the inbox, is not the item of a later exchange, its frame is not
\* written again and a result it was sent is not replaced; and once the loop
\* has stopped nothing more is written.
C32_NoRetry ==
    [][ /\ \A i \in 1..Len(items') : TimesWritten(wire', i) <= 1
        /\ \A i \in 1..Len(items) :
              (~InQueue(i) /\ i # cur) =>
                 /\ cur' # i
                 /\ \A j \in 1..Len(receiver') : receiver'[j] # i
                 /\ TimesWritten(wire', i) = TimesWritten(wire, i)
                 /\ items[i].sent # <<>> => items'[i].sent = items[i].sent
        /\ pc = "stopped" => wire' = wire ]_vars

\* The read of response 1 timed out and its caller was told so; the actor
\* went on to request 2 and request 1 is on the wire once.
C32_Witness ==
    /\ Len(items) = 2
    /\ items[1].sent = <<Err("Timeout")>>
    /\ items[1].kind = "Request"
    /\ wire = <<ReqFrame(1), ReqFrame(2)>>
    /\ pc = "reading"
    /\ cur = 2

\* C33: the cached greeting is assigned in three places only: by new() when
\* the first greeting was read, by a reconnect whose read succeeded and by a
\* keepalive whose read succeeded.  The exchange of a raw request, whatever
\* the server answers, a Greeting query, and every step that ends the loop,
\* a failed keepalive and a failed reconnect among them, leave it as it was.
C33_GreetingAssignedInThreePlaces ==
    [][ /\ greeting' # greeting =>
              \/ pc = "new_greeting" /\ state' = "Open"
              \/ pc = "reconnect_greeting" /\ state' = "Open"
              \/ pc = "keepalive_reading" /\ pc' = "wait"
        /\ (pc = "reading" \/ Taken("Request") \/ Taken("Greeting")) => greeting' = greeting
        /\ (pc' = "stopped" /\ pc' # pc) => greeting' = greeting ]_vars

\* A raw request was answered after one keepalive on the first stream: the
\* cache holds the greeting the keepalive read, not the response.
C33_Witness ==
    /\ Len(items) = 1
    /\ items[1].sent = <<Ok(RespFrame(1))>>
    /\ wire = <<HelloFrame, ReqFrame(1)>>
    /\ greeting = GreetingFrame(1, 1)

\* C34: no result channel ever holds more than one message.  Every send to a
\* work item's channel finds the channel empty, is made with the item's own
\* sender, and is the last use of that sender, on the path of a failed
\* reconnect as on every other; a send to a channel of capacity 1 therefore
\* returns at once.
C34_AtMostOneSend ==
    [][ \A i \in 1..Len(items) :
           /\ Len(items'[i].sent) <= 1
           /\ items'[i].sent # items[i].sent =>
                 /\ items[i].sent = <<>>
                 /\ items[i].tx
                 /\ ~items'[i].tx
           /\ ~items[i].tx => ~items'[i].tx ]_vars

\* A reconnect failed: the requester's channel holds Error::Reconnect and
\* nothing else, and the loop has stopped.
C34_Witness ==
    /\ pc = "stopped"
    /\ reconnFailed
    /\ Len(items) = 1
    /\ items[1].kind = "Reconnect"
    /\ items[1].sent = <<Err("Reconnect")>>
    /\ ~items[1].tx

\* C35 as stated: with an idle timeout D set, the connection Open and the
\* actor waiting, the time since the last frame was written is never more
\* than D (an exchange takes no time here), whatever work items that cause
\* no wire I/O are served in between.
C35_IdleSinceLastWrite ==
    (idle_timeout > 0 /\ state = "Open" /\ pc = "wait" /\ wire # <<>>) =>
       sinceWrite <= idle_timeout

\* C36 as stated: no XsdDuration that new or from_str returns has months and
\* seconds of opposite sign; new refuses such a pair; and a string with a
\* leading '-' parses to months and seconds that are both zero or negative.
C36_DurationSignsAgree ==
    /\ d_result.ok =>
          /\ ~(d_result.val.months < 0 /\ d_result.val.seconds > 0)
          /\ ~(d_result.val.months > 0 /\ d_result.val.seconds < 0)
    /\ (d_pc = "new" /\ (\/ d_args.months < 0 /\ d_args.seconds > 0
                         \/ d_args.months > 0 /\ d_args.seconds < 0)) => ~d_result.ok
    /\ (d_pc = "from_str" /\ starts_with(d_input, "-") /\ d_result.ok) =>
          (d_result.val.months <= 0 /\ d_result.val.seconds <= 0)


Actor ==
    \/ new_connect
    \/ new_read_greeting
    \/ message_top
    \/ message_greeting
    \/ message_request_write
    \/ message_request_read
    \/ message_reconnect_connect
    \/ message_reconnect_read
    \/ keepalive_write
    \/ keepalive_read
    \/ wait_for_shutdown_begin
    \/ wait_for_shutdown_done

Next ==
    \/ Actor
    \/ \E k \in RequestMessage : Enqueue(k)
    \/ \E i \in 1..Len(items) : Cancel(i)
    \/ CloneHandle
    \/ DropHandle
    \/ DropConnection
    \/ Tick


Spec == Init /\ [][Next]_vars

\* The actor task is scheduled as long as it can take a step, and the task
\* that awaited run() ends once run() has returned.
FairSpec == Spec /\ WF_vars(Actor) /\ WF_vars(DropConnection)

\* One framed exchange on its own: a content is written and read back, or a
\* frame of the peer is read.
FramingInit == Init /\ idle_timeout = 0

FramingNext ==
    \/ \E c \in Strings : frame_write(c)
    \/ \E l \in 0..(HeaderLen + MaxLen), p \in Seqs(MaxLen + 1) : frame_receive(l, p)
    \/ frame_read_header
    \/ frame_read_payload

FramingSpec == FramingInit /\ [][FramingNext]_vars

\* The connection with a task that may invoke run() again after it returned.
RerunNext ==
    \/ Next
    \/ run_again

RerunSpec == Init /\ [][RerunNext]_vars

\* One call of EppClient::transact on its own.
TransactInit == Init /\ idle_timeout = 0

TransactNext ==
    \/ transact_exchange
    \/ transact_deserialize
    \/ transact_return

TransactSpec == TransactInit /\ [][TransactNext]_vars

\* One XsdDuration made by new or by from_str.
DurationInit == Init /\ idle_timeout = 0

DurationNext ==
    \/ duration_from_str
    \/ duration_new

DurationSpec == DurationInit /\ [][DurationNext]_vars
====
